---- MODULE Spec2Model ----
(***************************************************************************)
(* The channel core of martd (src/channels.go): the registry of named      *)
(* channels, the per-channel bounded history, Pub / HasNew / Sub / UnSub / *)
(* Append, and the goroutines that call them.                              *)
(*                                                                         *)
(* Every handler except Pub runs from Lock to Unlock without a blocking    *)
(* point, so it is one atomic action guarded by the channel lock being     *)
(* free.  Pub can block inside its delivery loop (evch <- ...), so it is   *)
(* PubBegin (lock, stamp), PubPush (push), one PubSend per handle, and     *)
(* PubEnd (clear the waiter set, unlock).  The registry functions run      *)
(* under ChannelLock and never block inside it; they do NOT take the       *)
(* channel lock, so GetOrCreateChannel can write a channel while a Pub     *)
(* holds its lock.                                                         *)
(*                                                                         *)
(* Four specifications share the state and the actions: Spec (publishers,  *)
(* Sub, UnSub and the owners of the handles), PollSpec (publishers and     *)
(* clients calling HasNew, Append and Json), RegSpec (the registry and     *)
(* stats over two names) and FairSpec (one publisher and the long-polling  *)
(* subscribers, with weak fairness on every goroutine).                    *)
(***************************************************************************)
EXTENDS Integers, Sequences, FiniteSets, TLC

VARIABLES
    Channels,   \* the registry: name -> Channel (a function on the names referenced so far)
    now,        \* the reading time.Now().UnixNano() gives
    evq,        \* handle -> the ChannelEvents buffered in that Go channel
    pubs,       \* name -> the Pub call in flight on that channel (its locals)
    cl,         \* polling client or subscriber -> its etag and the results of its last calls
    published,  \* history variable: name -> every message pushed, in lock order
    firstCfg,   \* history variable: name -> arguments of the first GetOrCreateChannel,
                \*   and whether a later call passed other arguments while
                \*   the history held messages
    crashed,    \* a goroutine panicked (nil dereference); the process is gone
    log         \* history variable: the names passed to the registry so far (refs),
                \*   per name the handles whose UnSub returned and that were not
                \*   subscribed since (unsub), the last result of stats (nChans)

vars == <<Channels, now, evq, pubs, cl, published, firstCfg, crashed, log>>

----------------------------------------------------------------------------
(* Bounds and input sets *)

MaxPub == 4        \* publishes in one run, all channels together
HandleCap == 1     \* buffer of a notification handle ("single-slot")

Names == {"a"}              \* the channel publishers and subscribers use
AllNames == {"a", "b"}      \* the names callers pass to the registry
Handles == {"h1", "h2"}
Pollers == {"c1"}

\* the (size, life, one2one, key) argument tuples callers configure with
Configs ==
    { [size |-> 0, life |-> 1, one2one |-> FALSE, key |-> ""],
      [size |-> 2, life |-> 2, one2one |-> TRUE,  key |-> "k"],
      [size |-> 3, life |-> 1, one2one |-> TRUE,  key |-> ""] }

Min(a, b) == IF a < b THEN a ELSE b

----------------------------------------------------------------------------
(* The circular history buffer.  Its source file is not part of src/; it   *)
(* is modelled from spec.md section 4.1.  items is oldest-first.           *)

NilMessages == [alloc |-> FALSE, size |-> 0, items |-> <<>>]

NewCircularMessageArray(size) == [alloc |-> TRUE, size |-> size, items |-> <<>>]

Length(a) == Len(a.items)

Push(a, m) ==
    IF a.size = 0 THEN a
    ELSE IF Len(a.items) = a.size
         THEN [a EXCEPT !.items = Append(Tail(a.items), m)]
         ELSE [a EXCEPT !.items = Append(a.items, m)]

Ith(a, i) == a.items[i + 1]

PeekOldest(a) == a.items[1]

PeekNewest(a) == a.items[Len(a.items)]

----------------------------------------------------------------------------
(* Channel and registry *)

NewChannel(name) ==
    [ Name |-> name, Size |-> 0, Life |-> 0, Key |-> "", One2One |-> FALSE,
      Clients |-> {}, Messages |-> NilMessages, lock |-> "free", inited |-> FALSE ]

\* GetChannel_ without the "if !ok" test: a fresh Channel on every call
GetChannel__AlwaysNew(reg, name) ==
    (name :> NewChannel(name)) @@ reg

\* GetChannel_: the registry after the lookup-or-insert
GetChannel_(reg, name) ==
    IF name \in DOMAIN reg THEN reg ELSE (name :> NewChannel(name)) @@ reg

\* Configure with the buffer made one slot too large
Configure_WrongCapacity(ch, cfg) ==
    IF ~ch.inited
    THEN [ch EXCEPT !.inited = TRUE, !.Size = cfg.size, !.Life = cfg.life,
                    !.One2One = cfg.one2one, !.Key = cfg.key,
                    !.Messages = NewCircularMessageArray(cfg.size + 1)]
    ELSE ch

\* Configure without the "if !ch.inited" test
Configure_Always(ch, cfg) ==
    [ch EXCEPT !.inited = TRUE, !.Size = cfg.size, !.Life = cfg.life,
               !.One2One = cfg.one2one, !.Key = cfg.key,
               !.Messages = NewCircularMessageArray(cfg.size)]

\* the body of "if !ch.inited { ... }"
Configure(ch, cfg) ==
    IF ~ch.inited
    THEN [ch EXCEPT !.inited = TRUE, !.Size = cfg.size, !.Life = cfg.life,
                    !.One2One = cfg.one2one, !.Key = cfg.key,
                    !.Messages = NewCircularMessageArray(cfg.size)]
    ELSE ch

NoCfg == [set |-> FALSE, cfg |-> [size |-> 0, life |-> 0, one2one |-> FALSE, key |-> ""],
          later |-> FALSE]

GetOrCreateChannel(name, cfg) ==
    /\ ~crashed
    /\ LET reg == GetChannel_(Channels, name)
       IN  Channels' = [reg EXCEPT ![name] = Configure(reg[name], cfg)]
    /\ firstCfg' = [firstCfg EXCEPT ![name] =
                        IF ~@.set THEN [set |-> TRUE, cfg |-> cfg, later |-> FALSE]
                        ELSE [@ EXCEPT !.later = @ \/ ( /\ cfg # firstCfg[name].cfg
                                                        /\ Channels[name].Messages.items # <<>> )]]
    /\ log' = [log EXCEPT !.refs = @ \cup {name}]
    /\ UNCHANGED <<now, evq, pubs, cl, published, crashed>>

GetChannel(name) ==
    /\ ~crashed
    /\ Channels' = GetChannel_(Channels, name)
    /\ log' = [log EXCEPT !.refs = @ \cup {name}]
    /\ UNCHANGED <<now, evq, pubs, cl, published, firstCfg, crashed>>

----------------------------------------------------------------------------
(* The clock.  time.Now().UnixNano() never goes back in this model, and    *)
(* two calls may read the same value.  Only the order of the readings      *)
(* matters to the code, so the clock moves on only once a message carries  *)
(* the current reading.                                                    *)

Stamped(t) == \E n \in Names : \E k \in 1..Len(published[n]) : published[n][k].Created = t

Tick ==
    /\ ~crashed
    /\ Stamped(now)
    /\ now' = now + 1
    /\ UNCHANGED <<Channels, evq, pubs, cl, published, firstCfg, crashed, log>>

----------------------------------------------------------------------------
(* Pub *)

TotalPub == LET RECURSIVE Sum(_)
                Sum(S) == IF S = {} THEN 0
                          ELSE LET n == CHOOSE x \in S : TRUE
                               IN  Len(published[n]) + Sum(S \ {n})
            IN  Sum(Names)

NoPub == [st |-> "idle", m |-> [Data |-> 0, Created |-> 0], left |-> {}]

\* &Message{Data: data, Created: time.Now().UnixNano()}
NewMessage(data, t) == [Data |-> data, Created |-> t]

\* Lock and stamp.  Payloads are opaque to the code; the k-th message
\* pushed on a channel carries payload k, which tells the messages apart.
PubBegin(n) ==
    /\ ~crashed
    /\ n \in DOMAIN Channels
    /\ Channels[n].lock = "free"
    /\ TotalPub < MaxPub
    /\ Channels' = [Channels EXCEPT ![n].lock = "Pub"]
    /\ pubs' = [pubs EXCEPT ![n] = [st |-> "locked",
                                    m |-> NewMessage(Len(published[n]) + 1, now),
                                    left |-> {}]]
    /\ UNCHANGED <<now, evq, cl, published, firstCfg, crashed, log>>

\* c.Messages.Push(m), reading c.Messages as it is now, and the start of the
\* range over c.Clients.  Push on the nil buffer of an unconfigured channel
\* panics; the deferred Unlock runs and the process dies.
PubPush(n) ==
    /\ ~crashed
    /\ pubs[n].st = "locked"
    /\ IF Channels[n].Messages.alloc
       THEN /\ Channels' = [Channels EXCEPT ![n].Messages = Push(@, pubs[n].m)]
            /\ pubs' = [pubs EXCEPT ![n].st = "sending",
                                    ![n].left = Channels[n].Clients]
            /\ published' = [published EXCEPT ![n] = Append(@, pubs[n].m)]
            /\ UNCHANGED crashed
       ELSE /\ crashed' = TRUE
            /\ Channels' = [Channels EXCEPT ![n].lock = "free"]
            /\ pubs' = [pubs EXCEPT ![n].st = "panicked",
                                    ![n].left = Channels[n].Clients]
            /\ UNCHANGED published
    /\ UNCHANGED <<now, evq, cl, firstCfg, log>>

\* &ChannelEvent{c, m}
NewEvent(n, m) == [Chan |-> n, Mesg |-> m]

\* one iteration of "for evch := range c.Clients { evch <- ... }": the send
\* goes through once the handle's buffer has room
PubSend(n, h) ==
    /\ ~crashed
    /\ pubs[n].st = "sending"
    /\ h \in pubs[n].left
    /\ Len(evq[h]) < HandleCap
    /\ evq' = [evq EXCEPT ![h] = Append(@, NewEvent(n, pubs[n].m))]
    /\ pubs' = [pubs EXCEPT ![n].left = @ \ {h}]
    /\ UNCHANGED <<Channels, now, cl, published, firstCfg, crashed, log>>

\* c.Clients = make(...); return nil; deferred Unlock
PubEnd(n) ==
    /\ ~crashed
    /\ pubs[n].st = "sending"
    /\ pubs[n].left = {}
    /\ Channels' = [Channels EXCEPT ![n].Clients = {}, ![n].lock = "free"]
    /\ pubs' = [pubs EXCEPT ![n] = NoPub]
    /\ UNCHANGED <<now, evq, cl, published, firstCfg, crashed, log>>

----------------------------------------------------------------------------
(* Sub, UnSub and the owner of a handle receiving from it *)

Sub(n, h) ==
    /\ ~crashed
    /\ n \in DOMAIN Channels
    /\ Channels[n].lock = "free"
    /\ Channels' = [Channels EXCEPT ![n].Clients = @ \cup {h}]
    /\ log' = [log EXCEPT !.unsub[n] = @ \ {h}]
    /\ UNCHANGED <<now, evq, pubs, cl, published, firstCfg, crashed>>

\* UnSub dropping every waiter instead of the one handle
UnSubResult_ClearAll(ch, h) == [ch EXCEPT !.Clients = {}]

\* delete(c.Clients, evch)
UnSubResult(ch, h) == [ch EXCEPT !.Clients = @ \ {h}]

UnSub(n, h) ==
    /\ ~crashed
    /\ n \in DOMAIN Channels
    /\ Channels[n].lock = "free"
    /\ Channels' = [Channels EXCEPT ![n] = UnSubResult(@, h)]
    /\ log' = [log EXCEPT !.unsub[n] = @ \cup {h}]
    /\ UNCHANGED <<now, evq, pubs, cl, published, firstCfg, crashed>>

Recv(h) ==
    /\ ~crashed
    /\ evq[h] # <<>>
    /\ evq' = [evq EXCEPT ![h] = Tail(@)]
    /\ UNCHANGED <<Channels, now, pubs, cl, published, firstCfg, crashed, log>>

----------------------------------------------------------------------------
(* HasNew *)

RECURSIVE HasNewScan_OffByOne(_, _, _, _)
\* the scan returning the index of the match instead of the one after it
HasNewScan_OffByOne(a, etag, i, ml) ==
    IF i < ml - 1
    THEN IF etag = Ith(a, i).Created
         THEN <<TRUE, i>>
         ELSE HasNewScan_OffByOne(a, etag, i + 1, ml)
    ELSE <<FALSE, 0>>

RECURSIVE HasNewScan_ToNewest(_, _, _, _)
\* the scan with "i < ml" as its bound: it also matches the newest message
HasNewScan_ToNewest(a, etag, i, ml) ==
    IF i < ml
    THEN IF etag = Ith(a, i).Created
         THEN <<TRUE, i + 1>>
         ELSE HasNewScan_ToNewest(a, etag, i + 1, ml)
    ELSE <<FALSE, 0>>

RECURSIVE HasNewScan_SkipOne(_, _, _, _)
\* the scan resuming two past the match
HasNewScan_SkipOne(a, etag, i, ml) ==
    IF i < ml - 1
    THEN IF etag = Ith(a, i).Created
         THEN <<TRUE, i + 2>>
         ELSE HasNewScan_SkipOne(a, etag, i + 1, ml)
    ELSE <<FALSE, 0>>

RECURSIVE HasNewScan(_, _, _, _)
\* for i := uint(0); i < ml-1; i++ { if etag == ith.Created { return true, i+1 } }
HasNewScan(a, etag, i, ml) ==
    IF i < ml - 1
    THEN IF etag = Ith(a, i).Created
         THEN <<TRUE, i + 1>>
         ELSE HasNewScan(a, etag, i + 1, ml)
    ELSE <<FALSE, 0>>

\* HasNew without the "oldest.Created > etag" resync
HasNew_NoResync(c, etag) ==
    IF c.Messages.alloc /\ Length(c.Messages) > 0
    THEN HasNewScan(c.Messages, etag, 0, Length(c.Messages))
    ELSE <<FALSE, 0>>

HasNew(c, etag) ==
    IF c.Messages.alloc /\ Length(c.Messages) > 0
    THEN IF PeekOldest(c.Messages).Created > etag
         THEN <<TRUE, 0>>
         ELSE HasNewScan(c.Messages, etag, 0, Length(c.Messages))
    ELSE <<FALSE, 0>>

----------------------------------------------------------------------------
(* Append *)

RECURSIVE AppendLoop_SkipNewest(_, _, _, _)
\* the loop with "i < ml-1" as its bound: it leaves the newest message out
AppendLoop_SkipNewest(a, i, ml, acc) ==
    IF i < ml - 1
    THEN AppendLoop_SkipNewest(a, i + 1, ml,
                    [payload |-> Append(acc.payload, Ith(a, i).Data),
                     etag |-> Ith(a, i).Created])
    ELSE acc

RECURSIVE AppendLoop(_, _, _, _)
\* for i := ith; i < ml; i++ { payload = append(...); etag = ithm.Created }
AppendLoop(a, i, ml, acc) ==
    IF i < ml
    THEN AppendLoop(a, i + 1, ml,
                    [payload |-> Append(acc.payload, Ith(a, i).Data),
                     etag |-> Ith(a, i).Created])
    ELSE acc

\* the ChanResponse{etag, payload} stored for this channel
AppendResult(c, ith) ==
    AppendLoop(c.Messages, ith, Length(c.Messages), [payload |-> <<>>, etag |-> 0])

----------------------------------------------------------------------------
(* A polling client: it keeps the etag its last Append returned and calls  *)
(* HasNew and Append on its channel.  It may pass any etag and any start   *)
(* index; the records say whether a call followed the resume protocol.     *)

IdleClient(n) ==
    [ name |-> n, pc |-> "idle", etag |-> 0, seen |-> 0,
      arg |-> 0, own |-> FALSE, hasNew |-> FALSE, idx |-> 0,
      ith |-> 0, via |-> FALSE, resumed |-> FALSE, seen0 |-> 0, payload |-> <<>>,
      newEtag |-> 0, at |-> 0 ]

ClientHasNew(c, etag) ==
    LET n == cl[c].name IN
    /\ ~crashed
    /\ n \in DOMAIN Channels
    /\ Channels[n].lock = "free"
    /\ LET r == HasNew(Channels[n], etag)
       IN  cl' = [cl EXCEPT ![c] =
                    [@ EXCEPT !.pc = "checked", !.arg = etag,
                              !.own = (etag = cl[c].etag /\ cl[c].seen > 0),
                              !.hasNew = r[1], !.idx = r[2],
                              !.ith = 0, !.via = FALSE, !.resumed = FALSE, !.seen0 = 0,
                              !.payload = <<>>, !.newEtag = 0,
                              !.at = Len(published[n])]]
    /\ UNCHANGED <<Channels, now, evq, pubs, published, firstCfg, crashed, log>>

\* Length on the nil buffer of an unconfigured channel panics
ClientAppend(c, ith) ==
    LET n == cl[c].name IN
    /\ ~crashed
    /\ n \in DOMAIN Channels
    /\ Channels[n].lock = "free"
    /\ IF Channels[n].Messages.alloc
       THEN /\ LET r == AppendResult(Channels[n], ith)
               IN  cl' = [cl EXCEPT ![c] =
                            [@ EXCEPT !.pc = "collected",
                                      !.ith = ith,
                                      !.via = (cl[c].pc = "checked" /\ cl[c].hasNew
                                               /\ ith = cl[c].idx),
                                      !.resumed = (cl[c].pc = "checked" /\ cl[c].hasNew
                                                   /\ cl[c].own /\ ith = cl[c].idx),
                                      !.seen0 = cl[c].seen,
                                      !.payload = r.payload, !.newEtag = r.etag,
                                      !.etag = r.etag,
                                      !.seen = IF r.payload = <<>> THEN 0
                                               ELSE r.payload[Len(r.payload)],
                                      !.arg = 0, !.own = FALSE, !.hasNew = FALSE,
                                      !.idx = 0,
                                      !.at = Len(published[n])]]
            /\ UNCHANGED crashed
       ELSE /\ crashed' = TRUE
            /\ cl' = [cl EXCEPT ![c] = [@ EXCEPT !.pc = "panicked", !.ith = ith]]
    /\ UNCHANGED <<Channels, now, evq, pubs, published, firstCfg, log>>

\* Json: m, _ := c.Messages.PeekNewest(); {"etag": m.Created}.  PeekNewest on
\* the nil buffer of an unconfigured channel panics.  On an empty buffer it
\* fails with Empty and the error is dropped: the message it hands back with
\* the error is either nil, and m.Created panics, or a zero message, and the
\* etag is 0.
JsonOutcomes(c) ==
    IF ~c.Messages.alloc THEN {[ok |-> FALSE, etag |-> 0]}
    ELSE IF Length(c.Messages) = 0
         THEN {[ok |-> FALSE, etag |-> 0], [ok |-> TRUE, etag |-> 0]}
         ELSE {[ok |-> TRUE, etag |-> PeekNewest(c.Messages).Created]}

ClientJson(c) ==
    LET n == cl[c].name IN
    /\ ~crashed
    /\ n \in DOMAIN Channels
    /\ Channels[n].lock = "free"
    /\ \E r \in JsonOutcomes(Channels[n]) :
          IF r.ok
          THEN /\ cl' = [cl EXCEPT ![c] =
                           [IdleClient(n) EXCEPT
                               !.pc = "snapshot", !.etag = cl[c].etag,
                               !.seen = cl[c].seen, !.newEtag = r.etag,
                               !.at = Len(published[n])]]
               /\ UNCHANGED crashed
          ELSE /\ crashed' = TRUE
               /\ cl' = [cl EXCEPT ![c] = [@ EXCEPT !.pc = "jsonPanicked"]]
    /\ UNCHANGED <<Channels, now, evq, pubs, published, firstCfg, log>>

----------------------------------------------------------------------------
(* stats *)

\* len(Channels)
StatsResult(reg) == Cardinality(DOMAIN reg)

Stats ==
    /\ ~crashed
    /\ log' = [log EXCEPT !.nChans = StatsResult(Channels)]
    /\ UNCHANGED <<Channels, now, evq, pubs, cl, published, firstCfg, crashed>>

----------------------------------------------------------------------------

\* the start indexes a caller may pass: every index in range, the length, one past it
StartIndexes(c) ==
    IF cl[c].name \in DOMAIN Channels
    THEN 0..(Length(Channels[cl[c].name].Messages) + 1)
    ELSE {}

NoLog == [refs |-> {}, unsub |-> [n \in AllNames |-> {}], nChans |-> -1]

Init ==
    /\ Channels = [n \in {} |-> NewChannel(n)]
    /\ now = 1
    /\ evq = [h \in Handles |-> <<>>]
    /\ pubs = [n \in AllNames |-> NoPub]
    /\ cl \in [Pollers -> {IdleClient(n) : n \in Names}]
    /\ published = [n \in AllNames |-> <<>>]
    /\ firstCfg = [n \in AllNames |-> NoCfg]
    /\ crashed = FALSE
    /\ log = NoLog

\* registry, clock and Pub: the steps every specification takes
Core ==
    \/ \E n \in Names, cfg \in Configs : GetOrCreateChannel(n, cfg)
    \/ \E n \in Names : GetChannel(n)
    \/ Tick
    \/ \E n \in Names : PubBegin(n)
    \/ \E n \in Names : PubPush(n)
    \/ \E n \in Names : PubEnd(n)

\* publishers, subscribers and the owners of the handles
Next ==
    \/ Core
    \/ \E n \in Names, h \in Handles : PubSend(n, h)
    \/ \E n \in Names, h \in Handles : Sub(n, h)
    \/ \E n \in Names, h \in Handles : UnSub(n, h)
    \/ \E h \in Handles : Recv(h)

Spec == Init /\ [][Next]_vars

\* the registry alone, over two names: lookups, configurations, stats, and
\* the waiters that tell one Channel of a name from a fresh one
RegNext ==
    \/ \E n \in AllNames, cfg \in Configs : GetOrCreateChannel(n, cfg)
    \/ \E n \in AllNames : GetChannel(n)
    \/ Stats
    \/ \E n \in AllNames, h \in Handles : Sub(n, h)
    \/ \E n \in AllNames, h \in Handles : UnSub(n, h)

RegSpec == Init /\ [][RegNext]_vars

----------------------------------------------------------------------------
(* One publisher and the long-polling subscribers: each subscriber, with   *)
(* a handle of its own, calls HasNew with its etag; on new data it calls    *)
(* Append from the index returned, otherwise it calls Sub and waits for    *)
(* the event, and then starts over.                                        *)

Subscribers == Handles

SubCheck(s) ==
    /\ cl[s].pc \in {"idle", "collected", "woken"}
    /\ ClientHasNew(s, cl[s].etag)

SubCollect(s) ==
    /\ cl[s].pc = "checked" /\ cl[s].hasNew
    /\ ClientAppend(s, cl[s].idx)

\* Sub(handle), then the subscriber blocks receiving from the handle
SubWait(s) ==
    LET n == cl[s].name IN
    /\ ~crashed
    /\ cl[s].pc = "checked" /\ ~cl[s].hasNew
    /\ Channels[n].lock = "free"
    /\ Channels' = [Channels EXCEPT ![n].Clients = @ \cup {s}]
    /\ log' = [log EXCEPT !.unsub[n] = @ \ {s}]
    /\ cl' = [cl EXCEPT ![s] = [@ EXCEPT !.pc = "waiting"]]
    /\ UNCHANGED <<now, evq, pubs, published, firstCfg, crashed>>

\* the event arrives: the subscriber has the message the Pub sent
SubWake(s) ==
    /\ ~crashed
    /\ cl[s].pc = "waiting"
    /\ evq[s] # <<>>
    /\ evq' = [evq EXCEPT ![s] = Tail(@)]
    /\ cl' = [cl EXCEPT ![s] = [@ EXCEPT !.pc = "woken",
                                         !.seen = Head(evq[s]).Mesg.Data,
                                         !.etag = Head(evq[s]).Mesg.Created]]
    /\ UNCHANGED <<Channels, now, pubs, published, firstCfg, crashed, log>>

\* the publisher has configured the channel and no subscriber has started
FairInit ==
    /\ \E cfg \in Configs :
          /\ Channels = [n \in Names |-> Configure(NewChannel(n), cfg)]
          /\ firstCfg = [n \in AllNames |->
                            IF n \in Names
                            THEN [set |-> TRUE, cfg |-> cfg, later |-> FALSE]
                            ELSE NoCfg]
    /\ now = 1
    /\ evq = [h \in Handles |-> <<>>]
    /\ pubs = [n \in AllNames |-> NoPub]
    /\ cl \in [Subscribers -> {IdleClient(n) : n \in Names}]
    /\ published = [n \in AllNames |-> <<>>]
    /\ crashed = FALSE
    /\ log = [NoLog EXCEPT !.refs = Names]

Publisher(n) ==
    \/ PubBegin(n)
    \/ PubPush(n)
    \/ \E h \in Handles : PubSend(n, h)
    \/ PubEnd(n)

Subscriber(s) ==
    \/ SubCheck(s)
    \/ SubCollect(s)
    \/ SubWait(s)
    \/ SubWake(s)

FairNext ==
    \/ Tick
    \/ \E n \in Names : Publisher(n)
    \/ \E s \in Subscribers : Subscriber(s)

\* the Go scheduler runs every goroutine that can run, and a sync.RWMutex
\* does not starve a waiter
FairSpec ==
    /\ FairInit /\ [][FairNext]_vars
    /\ WF_vars(Tick)
    /\ \A n \in Names : WF_vars(Publisher(n))
    /\ \A s \in Subscribers : WF_vars(Subscriber(s))

\* publishers and polling clients.  HasNew and Append read only the history,
\* which Sub, UnSub and the deliveries never touch, so the waiter set stays
\* empty here and a Pub goes from its push straight to its return.
PollNext ==
    \/ Core
    \/ \E c \in Pollers : \E etag \in 0..now : ClientHasNew(c, etag)
    \/ \E c \in Pollers : \E ith \in StartIndexes(c) : ClientAppend(c, ith)
    \/ \E c \in Pollers : ClientJson(c)

PollSpec == Init /\ [][PollNext]_vars

----------------------------------------------------------------------------
(* Properties *)

Configured == {n \in DOMAIN Channels : Channels[n].inited}

\* the last Min(k, N) messages pushed on n, oldest first
LastPublished(n, N) ==
    LET k == Len(published[n])
    IN  SubSeq(published[n], k - Min(k, N) + 1, k)

\* the client's last call saw the channel as it is now
Fresh(c) == cl[c].name \in DOMAIN Channels /\ cl[c].at = Len(published[cl[c].name])

Hist(c) == Channels[cl[c].name].Messages

DataOf(s) == [i \in 1..Len(s) |-> s[i].Data]

\* payloads of the retained messages pushed after the seen-th message
NewerRetained(a, seen) == DataOf(SelectSeq(a.items, LAMBDA m : m.Data > seen))

\* payloads of the retained messages from index ith (0-based) to the newest
RetainedFrom(a, ith) == DataOf(SubSeq(a.items, ith + 1, Len(a.items)))

\* no two messages pushed on n carry the same stamp
DistinctStamps(n) ==
    \A i, j \in 1..Len(published[n]) :
        i # j => published[n][i].Created # published[n][j].Created

\* C1: a client that passes HasNew the etag of the message it last saw and
\* then passes Append the index HasNew returned receives exactly the
\* retained messages pushed after that message, in order, whatever
\* publishes ran in between.  Stated for channels whose stamps all differ,
\* where an etag names one message.
C1_ResumeExact ==
    \A c \in Pollers :
        ( /\ cl[c].pc = "collected" /\ cl[c].resumed /\ Fresh(c)
          /\ DistinctStamps(cl[c].name) )
            => cl[c].payload = NewerRetained(Hist(c), cl[c].seen0)

\* C2: no Pub holds the channel lock while it cannot hand off to any of the
\* handles it still has to notify.
C2_PublishNeverBlocks ==
    \A n \in DOMAIN Channels :
        ~ ( /\ Channels[n].lock = "Pub"
            /\ pubs[n].left # {}
            /\ \A h \in pubs[n].left : Len(evq[h]) >= HandleCap )

\* C3: no Pub ends in a panic, on any channel of the registry.
C3_PublishNeverFails == \A n \in Names : pubs[n].st # "panicked"

\* C4: on a channel configured with capacity N, after k pushes the history
\* holds Min(k, N) messages, never more than N, and they are the last
\* Min(k, N) pushed, oldest first.
C4_BoundedHistory ==
    \A n \in Configured :
        LET a == Channels[n].Messages
            N == Channels[n].Size
            k == Len(published[n])
        IN  /\ Length(a) = Min(k, N)
            /\ Length(a) <= N
            /\ a.items = LastPublished(n, N)

C4_Witness ==
    \E n \in Configured :
        /\ Channels[n].Size = 3
        /\ Len(published[n]) = 4
        /\ DataOf(Channels[n].Messages.items) = <<2, 3, 4>>

\* C5: a Pub that has ended has notified every handle that was in the
\* waiter set when it took the lock.
C5_PublishNotifiesAll ==
    \A n \in Names : pubs[n].st # "sending" => pubs[n].left = {}

\* C6: once GetOrCreateChannel has been called for a name, the channel's
\* capacity, retention, exclusivity and key are the first call's, whatever
\* later calls pass, and its buffer is the one made then: it still holds
\* the last messages pushed.
C6_FirstConfigurationWins ==
    \A n \in Names :
        firstCfg[n].set =>
            /\ n \in Configured
            /\ Channels[n].Size = firstCfg[n].cfg.size
            /\ Channels[n].Life = firstCfg[n].cfg.life
            /\ Channels[n].One2One = firstCfg[n].cfg.one2one
            /\ Channels[n].Key = firstCfg[n].cfg.key
            /\ Channels[n].Messages.alloc
            /\ Channels[n].Messages.size = firstCfg[n].cfg.size
            /\ Channels[n].Messages.items = LastPublished(n, firstCfg[n].cfg.size)

C6_Witness ==
    \E n \in Names :
        /\ firstCfg[n].set /\ firstCfg[n].later
        /\ Len(Channels[n].Messages.items) = 2
        /\ Channels[n].Size = firstCfg[n].cfg.size

\* C7: HasNew with the etag of the newest retained message reports no new
\* data.
C7_NewestEtagNoNew ==
    \A c \in Pollers :
        ( /\ cl[c].pc = "checked" /\ Fresh(c)
          /\ Length(Hist(c)) > 0
          /\ cl[c].arg = PeekNewest(Hist(c)).Created )
            => ~cl[c].hasNew

\* C8: on a channel with retained history, HasNew(0) and HasNew(etag) for an
\* etag older than the oldest retained message return (true, 0).
C8_ResyncFromOldest ==
    \A c \in Pollers :
        ( /\ cl[c].pc = "checked" /\ Fresh(c)
          /\ Length(Hist(c)) > 0
          /\ (cl[c].arg = 0 \/ cl[c].arg < PeekOldest(Hist(c)).Created) )
            => (cl[c].hasNew /\ cl[c].idx = 0)

C8_Witness ==
    \E c \in Pollers :
        /\ cl[c].pc = "checked" /\ Fresh(c)
        /\ Length(Hist(c)) > 0
        /\ cl[c].arg # 0 /\ cl[c].own
        /\ cl[c].arg < PeekOldest(Hist(c)).Created
        /\ cl[c].hasNew /\ cl[c].idx = 0

\* the indexes of the retained messages stamped etag
Matches(a, etag) == {i \in 0..(Length(a) - 1) : Ith(a, i).Created = etag}

First(S) == CHOOSE i \in S : \A j \in S : i <= j

\* C9: when the first retained message stamped etag is at index i and is not
\* the newest, HasNew(etag) returns (true, i + 1).
C9_ResumeAfterMatch ==
    \A c \in Pollers :
        ( /\ cl[c].pc = "checked" /\ Fresh(c)
          /\ Matches(Hist(c), cl[c].arg) # {}
          /\ First(Matches(Hist(c), cl[c].arg)) < Length(Hist(c)) - 1 )
            => ( /\ cl[c].hasNew
                 /\ cl[c].idx = First(Matches(Hist(c), cl[c].arg)) + 1 )

\* capacity 3, four messages pushed, etag of the third: (true, 2)
C9_Witness ==
    \E c \in Pollers :
        /\ cl[c].pc = "checked" /\ Fresh(c)
        /\ Channels[cl[c].name].Size = 3
        /\ DataOf(Hist(c).items) = <<2, 3, 4>>
        /\ Matches(Hist(c), cl[c].arg) = {1}
        /\ cl[c].hasNew /\ cl[c].idx = 2

\* C10: Append(ith) returns the payloads of the retained messages from ith to
\* the newest, and as etag the stamp of the newest retained message, also
\* when ith is at or past the length.
C10_CollectEtagIsNewest ==
    \A c \in Pollers :
        (cl[c].pc = "collected" /\ Fresh(c) /\ Length(Hist(c)) > 0)
            => ( /\ cl[c].payload = RetainedFrom(Hist(c), cl[c].ith)
                 /\ cl[c].newEtag = PeekNewest(Hist(c)).Created )

\* C11: on a configured channel of any capacity, 0 included, once a message
\* has been pushed and none after it, HasNew(0) reports new data and
\* Append(0) returns a payload that includes that message.
C11_RoundTripAnyCapacity ==
    \A c \in Pollers :
        ( /\ Fresh(c) /\ cl[c].name \in Configured
          /\ Len(published[cl[c].name]) > 0 )
            => ( /\ (cl[c].pc = "checked" /\ cl[c].arg = 0) => cl[c].hasNew
                 /\ (cl[c].pc = "collected" /\ cl[c].ith = 0)
                        => \E i \in 1..Len(cl[c].payload) :
                              cl[c].payload[i] = Len(published[cl[c].name]) )

\* C11 amended: the same on a configured channel of capacity at least 1.
C11_RoundTrip ==
    \A c \in Pollers :
        ( /\ Fresh(c) /\ cl[c].name \in Configured
          /\ Channels[cl[c].name].Size >= 1
          /\ Len(published[cl[c].name]) > 0 )
            => ( /\ (cl[c].pc = "checked" /\ cl[c].arg = 0) => cl[c].hasNew
                 /\ (cl[c].pc = "collected" /\ cl[c].ith = 0)
                        => \E i \in 1..Len(cl[c].payload) :
                              cl[c].payload[i] = Len(published[cl[c].name]) )

\* capacity 2, three messages pushed, Append(0) returns the last two
C11_Witness ==
    \E c \in Pollers :
        /\ cl[c].pc = "collected" /\ cl[c].ith = 0 /\ Fresh(c)
        /\ Channels[cl[c].name].Size = 2
        /\ Len(published[cl[c].name]) = 3
        /\ cl[c].payload = <<2, 3>>

\* C12: on a configured channel the stamps of the retained messages strictly
\* increase with the index, and the retained messages are the last pushed,
\* in the order the Pubs took the channel lock.
C12_StampsStrictlyIncrease ==
    \A n \in Configured :
        LET it == Channels[n].Messages.items
        IN  /\ \A i, j \in 1..Len(it) : i < j => it[i].Created < it[j].Created
            /\ it = LastPublished(n, Channels[n].Size)

\* C13: a client that passes HasNew its own etag and Append the index HasNew
\* returned is never handed a message it had already collected, also when
\* retained messages share a stamp.
C13_TiesNeverRedeliver ==
    \A c \in Pollers :
        (cl[c].pc = "collected" /\ cl[c].resumed)
            => \A i \in 1..Len(cl[c].payload) : cl[c].payload[i] > cl[c].seen0

\* C15: while a Pub holds a channel's lock, a step that is not a step of
\* that Pub leaves the channel (its configuration, its buffer and its
\* clients) as it is.
C15_NoChangeUnderLock ==
    [][ \A n \in DOMAIN Channels :
            (Channels[n].lock = "Pub" /\ pubs'[n] = pubs[n])
                => Channels'[n] = Channels[n] ]_vars

\* C18: Json never panics, on an unconfigured channel and on an empty one
\* too, and its etag is the stamp of the newest retained message.
C18_SnapshotSucceeds ==
    \A c \in Pollers :
        /\ cl[c].pc # "jsonPanicked"
        /\ (cl[c].pc = "snapshot" /\ Fresh(c) /\ Length(Hist(c)) > 0)
              => cl[c].newEtag = PeekNewest(Hist(c)).Created

\* some retained message other than the newest is stamped etag
MatchesBeforeNewest(a, etag) ==
    \E i \in Matches(a, etag) : i < Length(a) - 1

\* the channel states and etags of which C19 speaks
NoNewDataCase(c) ==
    \/ ~Hist(c).alloc
    \/ Length(Hist(c)) = 0
    \/ /\ cl[c].arg >= PeekOldest(Hist(c)).Created
       /\ ~MatchesBeforeNewest(Hist(c), cl[c].arg)

\* C19: HasNew returns (false, 0) on an unconfigured channel, on an empty
\* buffer, and when etag is not below the oldest retained stamp and no
\* retained message but the newest is stamped etag; and a call of HasNew
\* neither panics nor changes any channel.
C19_NoNewData ==
    /\ [](\A c \in Pollers :
            (cl[c].pc = "checked" /\ Fresh(c) /\ NoNewDataCase(c))
                => (~cl[c].hasNew /\ cl[c].idx = 0))
    /\ [][ (\E c \in Pollers : cl'[c] # cl[c] /\ cl'[c].pc = "checked")
                => (Channels' = Channels /\ crashed' = crashed) ]_vars

\* three retained messages of distinct stamps, etag of the newest: (false, 0)
C19_Witness ==
    \E c \in Pollers :
        /\ cl[c].pc = "checked" /\ Fresh(c)
        /\ Length(Hist(c)) = 3
        /\ DistinctStamps(cl[c].name)
        /\ cl[c].arg = PeekNewest(Hist(c)).Created
        /\ ~cl[c].hasNew /\ cl[c].idx = 0

\* C20: when HasNew returns true its index is below the length of the
\* history, and an Append from that index on a channel still configured the
\* same way returns at least one message and a non-zero etag.
C20_ResumeIndexInRange ==
    \A c \in Pollers :
        /\ (cl[c].pc = "checked" /\ Fresh(c) /\ cl[c].hasNew)
              => cl[c].idx < Length(Hist(c))
        /\ (cl[c].pc = "collected" /\ cl[c].via)
              => (cl[c].payload # <<>> /\ cl[c].newEtag # 0)

\* HasNew returned (true, 2) on a full capacity-3 channel, a Pub evicted the
\* oldest, and Append(2) returned the one newest message
C20_Witness ==
    \E c \in Pollers :
        /\ cl[c].pc = "collected" /\ cl[c].via /\ cl[c].ith = 2
        /\ Channels[cl[c].name].Size = 3
        /\ Len(published[cl[c].name]) = 4
        /\ cl[c].payload = <<4>>

\* C16: UnSub removes the one handle and nothing else, changes nothing when
\* the handle is absent, and twice is as once; a handle passed to UnSub and
\* not to Sub since is not a waiter, is not among the handles a Pub has
\* still to notify, and no Pub delivers an event to it.
C16_UnsubscribeIdempotent ==
    /\ [](\A n \in DOMAIN Channels :
            /\ \A h \in Handles :
                  LET ch == Channels[n]
                      r == UnSubResult(ch, h)
                  IN  /\ r.Clients = ch.Clients \ {h}
                      /\ r.Messages = ch.Messages
                      /\ h \notin ch.Clients => r = ch
                      /\ UnSubResult(r, h) = r
            /\ log.unsub[n] \cap Channels[n].Clients = {}
            /\ pubs[n].st = "sending" => pubs[n].left \cap log.unsub[n] = {})
    /\ [][ \A h \in Handles :
              Len(evq'[h]) > Len(evq[h])
                  => h \notin log.unsub[evq'[h][Len(evq'[h])].Chan] ]_vars

\* h1 was passed to UnSub; a later Pub has notified h2, still a waiter, and
\* not h1
C16_Witness ==
    /\ "a" \in DOMAIN Channels
    /\ log.unsub["a"] = {"h1"}
    /\ pubs["a"].st = "sending" /\ pubs["a"].left = {}
    /\ Channels["a"].Clients = {"h2"}
    /\ evq["h2"] = <<NewEvent("a", pubs["a"].m)>>
    /\ evq["h1"] = <<>>

\* C17: the registry holds one Channel for each name passed to GetChannel or
\* GetOrCreateChannel so far and for no other name; a step never removes a
\* Channel nor puts another in its place (it keeps its configuration, its
\* buffer and every waiter not passed to UnSub in that step); and stats
\* reports the number of names referenced so far, which never decreases.
C17_OneChannelPerName ==
    /\ [](/\ DOMAIN Channels = log.refs
          /\ \A n \in DOMAIN Channels : Channels[n].Name = n
          /\ log.nChans <= Cardinality(log.refs))
    /\ [][ (\A n \in DOMAIN Channels :
                /\ n \in DOMAIN Channels'
                /\ Channels[n].Clients \ log'.unsub[n] \subseteq Channels'[n].Clients
                /\ Channels[n].inited
                      => /\ Channels'[n].inited
                         /\ Channels'[n].Size = Channels[n].Size
                         /\ Channels'[n].Life = Channels[n].Life
                         /\ Channels'[n].One2One = Channels[n].One2One
                         /\ Channels'[n].Key = Channels[n].Key
                         /\ Channels'[n].Messages = Channels[n].Messages)
            /\ (log'.nChans # log.nChans
                  => (log'.nChans = Cardinality(log.refs) /\ log'.nChans > log.nChans))
         ]_vars

\* both names referenced, "a" configured with a waiter and "b" not
\* configured, and stats has reported 2
C17_Witness ==
    /\ log.refs = {"a", "b"}
    /\ log.nChans = 2
    /\ Channels["a"].inited /\ Channels["a"].Size = 3
    /\ Channels["a"].Clients = {"h1"}
    /\ ~Channels["b"].inited

\* the publisher has returned from its last Pub; s waits on its handle,
\* which holds no event, and has not seen the last message: no step can
\* wake s any more
Stranded(s) ==
    LET n == cl[s].name IN
    /\ Len(published[n]) = MaxPub /\ pubs[n] = NoPub
    /\ cl[s].pc = "waiting" /\ evq[s] = <<>>
    /\ cl[s].seen < MaxPub

====
